---------------------------- MODULE Spec2Model ----------------------------
(***************************************************************************)
(* A model of the GraphSON codec of dse_graph/serializers.py: the encode   *)
(* and decode tables built at import time, the scalar handlers (dictify /  *)
(* objectify) and the structural handlers that rebuild graph objects.      *)
(*                                                                         *)
(* Python objects are records with a kind field k.  Python dicts are       *)
(* [k |-> "dict", d |-> f] with f a function on string keys; a tagged wire *)
(* record is the dict with the keys "@type" and "@value".  Text produced   *)
(* or parsed by a handler is a sequence of one-character strings.  Python  *)
(* integers are unbounded, so an integer n is the pair hi, lo with         *)
(* n = hi * 2^16 + lo and 0 <= lo < 2^16.  A raised exception is a record  *)
(* of kind "error" that every caller hands on unchanged.                   *)
(***************************************************************************)
EXTENDS Integers, Sequences, FiniteSets, TLC

VARIABLES
    py3,                \* six.PY3 of the interpreter that imported the module
    pc,                 \* position in the module-level code of serializers.py
    heap,               \* the dict objects allocated by the module-level code
    serializers,        \* the three module globals: references into heap,
    deserializers,      \*   0 while the name is unbound
    dse_deserializers,
    op,                 \* the last call made after import
    handler,            \* the handler class it reached
    arg,                \* its argument
    reader,             \* the decode table of the reader it ran with
    result              \* what it returned or raised

tables == <<heap, serializers, deserializers, dse_deserializers>>
call == <<op, handler, arg, reader, result>>
vars == <<py3, pc, tables, call>>

RECURSIVE ToObject(_, _)
RECURSIVE Objectify(_, _, _)

-----------------------------------------------------------------------------
(* Python values *)

Limb == 2 ^ 16

PyInt(t, h, l) == [k |-> "int", type |-> t, hi |-> h, lo |-> l]
Small(n) == PyInt("int", 0, n)
Bool(b) == PyInt("bool", 0, IF b THEN 1 ELSE 0)
Str(s) == [k |-> "str", s |-> s]
Text(cs) == [k |-> "text", chars |-> cs]
Dict(f) == [k |-> "dict", d |-> f]
List(l) == [k |-> "list", l |-> l]
PySet(S) == [k |-> "set", elems |-> S]
None == [k |-> "None"]
Raise(e, w) == [k |-> "error", exc |-> e, what |-> w]
IsError(x) == x.k = "error"

EmptyDict == Dict([f \in {} |-> None])

\* a > b on unbounded integers
IntGT(a, b) == a.hi > b.hi \/ (a.hi = b.hi /\ a.lo > b.lo)

MAX_INT32 == [hi |-> Limb - 1, lo |-> Limb - 1]

\* gremlin_python GraphSONUtil.typedValue(type_name, value, prefix="g")
TypedValue(type_name, value, prefix) ==
    Dict(("@type" :> Str(prefix \o ":" \o type_name)) @@ ("@value" :> value))

IsTyped(w) == w.k = "dict" /\ DOMAIN w.d = {"@type", "@value"}
TagOf(w) == w.d["@type"].s
ValueOf(w) == w.d["@value"]

-----------------------------------------------------------------------------
(* IntegerSerializer *)

\* gremlin_python.statics.long(n): the same number, of the long type
long(n) == [n EXCEPT !.type = "long"]

IntegerSerializer_dictify(n) ==
    LET m == IF py3 /\ n.type = "int" /\ IntGT(n, MAX_INT32) THEN long(n) ELSE n
    IN  IF m.type = "bool" THEN m
        ELSE IF m.type = "long" THEN TypedValue("Int64", m, "g")
        ELSE TypedValue("Int32", m, "g")

Int16Deserializer_objectify(v) == v

Int64Deserializer_objectify(v) ==
    IF py3 THEN v
    ELSE IF v.k = "int" THEN long(v) ELSE Raise("TypeError", "long")


-----------------------------------------------------------------------------
(* Text: sequences of one-character strings *)

Digits == <<"0", "1", "2", "3", "4", "5", "6", "7", "8", "9">>
HexLower == Digits \o <<"a", "b", "c", "d", "e", "f">>
HexUpper == Digits \o <<"A", "B", "C", "D", "E", "F">>

Range(s) == {s[i] : i \in DOMAIN s}
IsDigit(c) == c \in Range(Digits)
DigitVal(c) == CHOOSE i \in 0..9 : Digits[i + 1] = c
AllDigits(cs) == \A i \in DOMAIN cs : IsDigit(cs[i])
IsHex(c) == c \in Range(HexLower) \cup Range(HexUpper)
HexVal(c) == CHOOSE i \in 0..15 : HexLower[i + 1] = c \/ HexUpper[i + 1] = c

\* the first position of c in cs, 0 when there is none
IndexOf(cs, c) ==
    IF \E i \in DOMAIN cs : cs[i] = c
    THEN CHOOSE i \in DOMAIN cs : cs[i] = c /\ \A j \in 1..(i - 1) : cs[j] # c
    ELSE 0

Slice(cs, from, to) == IF from > to THEN <<>> ELSE SubSeq(cs, from, to)
Repeat(c, n) == [i \in 1..n |-> c]

RECURSIVE NatOf(_)
\* int(cs) for a sequence of decimal digits
NatOf(cs) ==
    IF cs = <<>> THEN 0
    ELSE NatOf(SubSeq(cs, 1, Len(cs) - 1)) * 10 + DigitVal(cs[Len(cs)])

RECURSIVE NatChars(_)
\* "%d" % n for n >= 0
NatChars(n) ==
    IF n < 10 THEN <<Digits[n + 1]>>
    ELSE NatChars(n \div 10) \o <<Digits[(n % 10) + 1]>>

\* "%0<w>d" % n for n >= 0
Pad(n, w) ==
    LET cs == NatChars(n)
    IN  IF Len(cs) >= w THEN cs ELSE Repeat("0", w - Len(cs)) \o cs

RECURSIVE RStrip(_, _)
\* cs.rstrip(c)
RStrip(cs, c) ==
    IF cs # <<>> /\ cs[Len(cs)] = c THEN RStrip(SubSeq(cs, 1, Len(cs) - 1), c) ELSE cs

RECURSIVE LStrip(_, _)
LStrip(cs, c) ==
    IF cs # <<>> /\ cs[1] = c THEN LStrip(Tail(cs), c) ELSE cs

-----------------------------------------------------------------------------
(* UUIDIO *)

UUID(hex) == [k |-> "UUID", hex |-> hex]

\* six.text_type(v) of a uuid.UUID: '%032x' of the number, hyphenated 8-4-4-4-12
UUID_str(v) ==
    LET h == [i \in 1..Len(v.hex) |-> HexLower[v.hex[i] + 1]]
    IN  Slice(h, 1, 8) \o <<"-">> \o Slice(h, 9, 12) \o <<"-">> \o Slice(h, 13, 16)
        \o <<"-">> \o Slice(h, 17, 20) \o <<"-">> \o Slice(h, 21, 32)

\* uuid.UUID(hex): braces and hyphens dropped, 32 hexadecimal digits wanted
UUID_parse(v) ==
    IF v.k # "text" THEN Raise("AttributeError", "replace")
    ELSE LET h == SelectSeq(v.chars, LAMBDA c : c \notin {"-", "{", "}"})
         IN  IF Len(h) # 32 \/ \E i \in DOMAIN h : ~IsHex(h[i])
             THEN Raise("ValueError", "badly formed hexadecimal UUID string")
             ELSE UUID([i \in 1..32 |-> HexVal(h[i])])

UUIDIO_dictify(v) == TypedValue("UUID", Text(UUID_str(v)), "g")

UUIDIO_objectify(v) == UUID_parse(v)

-----------------------------------------------------------------------------
(* BigDecimalIO *)

\* decimal.Decimal: (-1)^sign * int * 10^exp, int a digit sequence without
\* leading zeros
Decimal(sign, int, exp) == [k |-> "Decimal", sign |-> sign, int |-> int, exp |-> exp]

\* "%+d" % n
SignedChars(n) == IF n < 0 THEN <<"-">> \o NatChars(-n) ELSE <<"+">> \o NatChars(n)

\* Decimal.__str__ (scientific notation, capitals)
Decimal_str(v) ==
    LET int == [i \in 1..Len(v.int) |-> Digits[v.int[i] + 1]]
        leftdigits == v.exp + Len(int)
        dotplace == IF v.exp <= 0 /\ leftdigits > -6 THEN leftdigits ELSE 1
        intpart == IF dotplace <= 0 THEN <<"0">>
                   ELSE IF dotplace >= Len(int) THEN int \o Repeat("0", dotplace - Len(int))
                   ELSE Slice(int, 1, dotplace)
        fracpart == IF dotplace <= 0 THEN <<".">> \o Repeat("0", -dotplace) \o int
                    ELSE IF dotplace >= Len(int) THEN <<>>
                    ELSE <<".">> \o Slice(int, dotplace + 1, Len(int))
        exp == IF leftdigits = dotplace THEN <<>>
               ELSE <<"E">> \o SignedChars(leftdigits - dotplace)
    IN  (IF v.sign = 1 THEN <<"-">> ELSE <<>>) \o intpart \o fracpart \o exp

\* str(int(cs)) as a digit sequence: leading zeros dropped
IntDigits(cs) ==
    LET z == LStrip(cs, "0")
    IN  IF z = <<>> THEN <<0>> ELSE [i \in 1..Len(z) |-> DigitVal(z[i])]

\* Decimal(str): [sign] digits [. digits] [E [sign] digits]
Decimal_parse(v) ==
    IF v.k # "text" THEN Raise("TypeError", "Decimal")
    ELSE
    LET cs == v.chars
        signed == cs # <<>> /\ cs[1] \in {"-", "+"}
        body == IF signed THEN Tail(cs) ELSE cs
        e0 == IndexOf(body, "E")
        e == IF e0 = 0 THEN IndexOf(body, "e") ELSE e0
        mant == IF e = 0 THEN body ELSE Slice(body, 1, e - 1)
        expo == IF e = 0 THEN <<>> ELSE Slice(body, e + 1, Len(body))
        esigned == expo # <<>> /\ expo[1] \in {"-", "+"}
        edigits == IF esigned THEN Tail(expo) ELSE expo
        dot == IndexOf(mant, ".")
        intpart == IF dot = 0 THEN mant ELSE Slice(mant, 1, dot - 1)
        fracpart == IF dot = 0 THEN <<>> ELSE Slice(mant, dot + 1, Len(mant))
        ok == /\ AllDigits(intpart) /\ AllDigits(fracpart)
              /\ Len(intpart) + Len(fracpart) > 0
              /\ (e = 0 \/ (edigits # <<>> /\ AllDigits(edigits)))
        expval == IF e = 0 THEN 0
                  ELSE IF esigned /\ expo[1] = "-" THEN -NatOf(edigits) ELSE NatOf(edigits)
    IN  IF ~ok THEN Raise("InvalidOperation", "ConversionSyntax")
        ELSE Decimal(IF signed /\ cs[1] = "-" THEN 1 ELSE 0,
                     IntDigits(intpart \o fracpart), expval - Len(fracpart))

BigDecimalIO_dictify(v) == TypedValue("BigDecimal", Text(Decimal_str(v)), "gx")

BigDecimalIO_objectify(v) == Decimal_parse(v)

-----------------------------------------------------------------------------
(* InstantIO *)

\* datetime.datetime; aware says whether tzinfo is set, offset is utcoffset()
\* in minutes (0 for a naive value)
DateTime(y, mo, d, h, mi, s, us, aware, offset) ==
    [k |-> "datetime", year |-> y, month |-> mo, day |-> d, hour |-> h,
     minute |-> mi, second |-> s, microsecond |-> us, aware |-> aware, offset |-> offset]

Naive(y, mo, d, h, mi, s, us) == DateTime(y, mo, d, h, mi, s, us, FALSE, 0)

\* datetime.date
Date(y, mo, d) == [k |-> "date", year |-> y, month |-> mo, day |-> d]

IsLeap(y) == y % 4 = 0 /\ (y % 100 # 0 \/ y % 400 = 0)

DaysInMonth(y, m) ==
    IF m = 2 THEN (IF IsLeap(y) THEN 29 ELSE 28)
    ELSE IF m \in {4, 6, 9, 11} THEN 30 ELSE 31

\* datetime._days_before_month: the days of the year before the first of month m
DaysBeforeMonth(y, m) ==
    <<0, 31, 59, 90, 120, 151, 181, 212, 243, 273, 304, 334>>[m]
    + (IF m > 2 /\ IsLeap(y) THEN 1 ELSE 0)

\* datetime._ymd2ord: the proleptic Gregorian ordinal, 0001-01-01 is day 1
YmdToOrd(y, m, d) ==
    LET y1 == y - 1
    IN  y1 * 365 + (y1 \div 4) - (y1 \div 100) + (y1 \div 400) + DaysBeforeMonth(y, m) + d

\* tm_wday of the struct_time: Monday is 0
Weekday(y, m, d) == (YmdToOrd(y, m, d) + 6) % 7

NextDay(v) ==
    IF v.day < DaysInMonth(v.year, v.month) THEN [v EXCEPT !.day = @ + 1]
    ELSE IF v.month < 12 THEN [v EXCEPT !.month = @ + 1, !.day = 1]
    ELSE [v EXCEPT !.year = @ + 1, !.month = 1, !.day = 1]

PrevDay(v) ==
    IF v.day > 1 THEN [v EXCEPT !.day = @ - 1]
    ELSE IF v.month > 1
         THEN [v EXCEPT !.month = @ - 1, !.day = DaysInMonth(v.year, v.month - 1)]
    ELSE [v EXCEPT !.year = @ - 1, !.month = 12, !.day = 31]

\* v - v.utcoffset() when the offset is set and not zero, else v; |offset| is
\* below one day, so the date moves by one day at most
ToUTC(v) ==
    IF ~v.aware \/ v.offset = 0 THEN v
    ELSE LET t == v.hour * 60 + v.minute - v.offset
             w == IF t < 0 THEN PrevDay(v) ELSE IF t >= 1440 THEN NextDay(v) ELSE v
         IN  [w EXCEPT !.hour = (t % 1440) \div 60, !.minute = t % 60]

\* v.utctimetuple(): year, month, day, hour, minute, second, weekday, yearday, dst
utctimetuple(v) ==
    LET u == ToUTC(v)
    IN  <<u.year, u.month, u.day, u.hour, u.minute, u.second,
          Weekday(u.year, u.month, u.day),
          DaysBeforeMonth(u.year, u.month) + u.day, 0>>

\* datetime.datetime(*t) for a tuple of seven numbers: the seventh positional
\* parameter of the constructor is microsecond
DateTimeOfTuple(t) == Naive(t[1], t[2], t[3], t[4], t[5], t[6], t[7])

\* datetime.datetime.combine(v, datetime.datetime.min.time())
CombineMidnight(v) == Naive(v.year, v.month, v.day, 0, 0, 0, 0)

\* v.isoformat() of a naive datetime
isoformat(v) ==
    Pad(v.year, 4) \o <<"-">> \o Pad(v.month, 2) \o <<"-">> \o Pad(v.day, 2) \o <<"T">>
    \o Pad(v.hour, 2) \o <<":">> \o Pad(v.minute, 2) \o <<":">> \o Pad(v.second, 2)
    \o (IF v.microsecond # 0 THEN <<".">> \o Pad(v.microsecond, 6) ELSE <<>>)

InstantIO_dictify(v) ==
    IF v.k = "datetime"
    THEN TypedValue("Instant",
                    Text(isoformat(DateTimeOfTuple(SubSeq(utctimetuple(v), 1, 7))) \o <<"Z">>),
                    "gx")
    ELSE IF v.k = "date"
    THEN TypedValue("Instant", Text(isoformat(CombineMidnight(v)) \o <<"Z">>), "gx")
    ELSE Raise("TypeError", "combine")

\* the date and time fields of YYYY-MM-DDTHH:MM:SS at the head of cs, with
\* ok telling whether the head has that layout and names a real date and time
\* (two-digit fields, as isoformat writes them)
ParseSeconds(cs) ==
    LET layout == /\ Len(cs) >= 19
                  /\ AllDigits(Slice(cs, 1, 4)) /\ cs[5] = "-"
                  /\ AllDigits(Slice(cs, 6, 7)) /\ cs[8] = "-"
                  /\ AllDigits(Slice(cs, 9, 10)) /\ cs[11] = "T"
                  /\ AllDigits(Slice(cs, 12, 13)) /\ cs[14] = ":"
                  /\ AllDigits(Slice(cs, 15, 16)) /\ cs[17] = ":"
                  /\ AllDigits(Slice(cs, 18, 19))
        y == NatOf(Slice(cs, 1, 4))
        mo == NatOf(Slice(cs, 6, 7))
        d == NatOf(Slice(cs, 9, 10))
        h == NatOf(Slice(cs, 12, 13))
        mi == NatOf(Slice(cs, 15, 16))
        s == NatOf(Slice(cs, 18, 19))
    IN  IF layout /\ y >= 1 /\ mo \in 1..12 /\ d >= 1 /\ d <= DaysInMonth(y, mo)
           /\ h <= 23 /\ mi <= 59 /\ s <= 59
        THEN [ok |-> TRUE, value |-> Naive(y, mo, d, h, mi, s, 0)]
        ELSE [ok |-> FALSE, value |-> None]

\* datetime.strptime(v, '%Y-%m-%dT%H:%M:%S.%fZ'): %f takes one to six digits
\* and pads them with zeros on the right
StrptimeFraction(cs) ==
    LET head == ParseSeconds(cs)
        frac == Slice(cs, 21, Len(cs) - 1)
    IN  IF head.ok /\ Len(cs) >= 22 /\ cs[20] = "." /\ cs[Len(cs)] = "Z"
           /\ Len(frac) \in 1..6 /\ AllDigits(frac)
        THEN [head.value EXCEPT !.microsecond = NatOf(frac \o Repeat("0", 6 - Len(frac)))]
        ELSE Raise("ValueError", "does not match format")

\* datetime.strptime(v, '%Y-%m-%dT%H:%M:%SZ')
StrptimeSeconds(cs) ==
    LET head == ParseSeconds(cs)
    IN  IF head.ok /\ Len(cs) = 20 /\ cs[20] = "Z" THEN head.value
        ELSE Raise("ValueError", "does not match format")

InstantIO_objectify(v) ==
    IF v.k # "text" THEN Raise("TypeError", "strptime")
    ELSE LET d == StrptimeFraction(v.chars)
         IN  IF IsError(d) THEN StrptimeSeconds(v.chars) ELSE d

-----------------------------------------------------------------------------
(* DurationIO *)

\* datetime.timedelta, normalised as Python keeps it: any number of days,
\* 0 <= seconds < 86400, 0 <= microseconds < 1000000
TimeDelta(d, s, us) == [k |-> "timedelta", days |-> d, seconds |-> s, microseconds |-> us]

\* timedelta(days=d, seconds=s, microseconds=us) for any integers s and
\* 0 <= us < 1000000
NormDelta(d, s, us) == TimeDelta(d + (s \div 86400), s % 86400, us)

\* -v
NegDelta(v) ==
    IF v.microseconds = 0 THEN NormDelta(-v.days, -v.seconds, 0)
    ELSE NormDelta(-v.days, -v.seconds - 1, 1000000 - v.microseconds)

\* isodate.duration_isoformat(v) with the default format "P%P": a minus sign
\* for a negative timedelta, then the days, hours, minutes and seconds of its
\* absolute value, "0D" when all are zero
duration_isoformat(v) ==
    LET a == IF v.days < 0 THEN NegDelta(v) ELSE v
        usecs == a.microseconds
        seconds == a.seconds % 60
        minutes == (a.seconds \div 60) % 60
        hours == a.seconds \div 3600
        days == a.days
        secs == IF usecs # 0
                THEN RStrip(NatChars(seconds) \o <<".">> \o Pad(usecs, 6), "0") \o <<"S">>
                ELSE IF seconds # 0 THEN NatChars(seconds) \o <<"S">> ELSE <<>>
        time == IF hours # 0 \/ minutes # 0 \/ seconds # 0 \/ usecs # 0
                THEN <<"T">> \o (IF hours # 0 THEN NatChars(hours) \o <<"H">> ELSE <<>>)
                     \o (IF minutes # 0 THEN NatChars(minutes) \o <<"M">> ELSE <<>>)
                     \o secs
                ELSE <<>>
        ret == (IF days # 0 THEN NatChars(days) \o <<"D">> ELSE <<>>) \o time
    IN  (IF v.days < 0 THEN <<"-">> ELSE <<>>) \o <<"P">>
        \o (IF ret = <<>> THEN <<"0", "D">> ELSE ret)

RECURSIVE DigitRunEnd(_, _)
\* the first position at or after i that holds no digit
DigitRunEnd(cs, i) ==
    IF i <= Len(cs) /\ IsDigit(cs[i]) THEN DigitRunEnd(cs, i + 1) ELSE i

\* the first position after the number [0-9]+([,.][0-9]+)? that starts at i;
\* i when no number starts there
NumEnd(cs, i) ==
    LET a == DigitRunEnd(cs, i)
        b == IF a > i /\ a <= Len(cs) /\ cs[a] \in {".", ","}
             THEN DigitRunEnd(cs, a + 1) ELSE a
    IN  IF a > i /\ a <= Len(cs) /\ cs[a] \in {".", ","} /\ b > a + 1 THEN b ELSE a

RECURSIVE MatchFields(_, _, _, _)
\* the optional groups <number><designator> of the ISO 8601 period pattern,
\* matched in the order of desigs from position i on
MatchFields(cs, i, desigs, acc) ==
    IF desigs = <<>> THEN [pos |-> i, acc |-> acc]
    ELSE LET j == NumEnd(cs, i)
         IN  IF j > i /\ j <= Len(cs) /\ cs[j] = Head(desigs)
             THEN MatchFields(cs, j + 1, Tail(desigs),
                              [acc EXCEPT ![Head(desigs)] = Slice(cs, i, j - 1)])
             ELSE MatchFields(cs, i, Tail(desigs), acc)

\* the whole part and the fraction, in microseconds, of a matched number (an
\* absent group counts as 0); the fraction has six digits at most
SepPos(num) == IF IndexOf(num, ".") # 0 THEN IndexOf(num, ".") ELSE IndexOf(num, ",")

WholeOf(num) ==
    IF num = <<>> THEN 0
    ELSE IF SepPos(num) = 0 THEN NatOf(num) ELSE NatOf(Slice(num, 1, SepPos(num) - 1))

MicrosOf(num) ==
    LET f == Slice(num, SepPos(num) + 1, Len(num))
    IN  IF SepPos(num) = 0 THEN 0 ELSE NatOf(f \o Repeat("0", 6 - Len(f)))

\* isodate.parse_duration(v): [sign] P [nY][nM][nW][nD] [T [nH][nM][nS]];
\* without years and months the result is a timedelta.  Fractions are read
\* in the seconds group, where duration_isoformat writes them.
parse_duration(v) ==
    IF v.k # "text" THEN Raise("TypeError", "parse_duration")
    ELSE
    LET cs == v.chars
        signed == cs # <<>> /\ cs[1] \in {"-", "+"}
        p == IF signed THEN 2 ELSE 1
        none == [c \in {"Y", "M", "W", "D", "H", "S"} |-> <<>>]
        date == MatchFields(cs, p + 1, <<"Y", "M", "W", "D">>, none)
        hasT == date.pos <= Len(cs) /\ cs[date.pos] = "T"
        time == IF hasT THEN MatchFields(cs, date.pos + 1, <<"H", "M", "S">>, none)
                ELSE [pos |-> date.pos, acc |-> none]
        ok == /\ Len(cs) > p /\ cs[p] = "P"
              /\ time.pos = Len(cs) + 1
              /\ \A c \in {"Y", "M", "W", "D"} : AllDigits(date.acc[c])
              /\ \A c \in {"H", "M"} : AllDigits(time.acc[c])
              /\ (SepPos(time.acc["S"]) = 0
                     \/ Len(time.acc["S"]) - SepPos(time.acc["S"]) <= 6)
        ret == NormDelta(WholeOf(date.acc["D"]) + 7 * WholeOf(date.acc["W"]),
                         WholeOf(time.acc["H"]) * 3600 + WholeOf(time.acc["M"]) * 60
                             + WholeOf(time.acc["S"]),
                         MicrosOf(time.acc["S"]))
    IN  IF ~ok THEN Raise("ISO8601Error", "Unable to parse duration string")
        ELSE IF WholeOf(date.acc["Y"]) # 0 \/ WholeOf(date.acc["M"]) # 0
        THEN [k |-> "Duration", years |-> WholeOf(date.acc["Y"]),
              months |-> WholeOf(date.acc["M"]), negative |-> signed /\ cs[1] = "-",
              tdelta |-> ret]
        ELSE IF signed /\ cs[1] = "-" THEN NegDelta(ret) ELSE ret

DurationIO_dictify(v) == TypedValue("Duration", Text(duration_isoformat(v)), "gx")

DurationIO_objectify(v) == parse_duration(v)

-----------------------------------------------------------------------------
(* BlobIO *)

\* bytearray, bytes, memoryview (PY3) and buffer (PY2) values: the type and
\* the bytes held
Blob(t, bs) == [k |-> "blob", type |-> t, bytes |-> bs]

Base64Alphabet ==
    <<"A", "B", "C", "D", "E", "F", "G", "H", "I", "J", "K", "L", "M",
      "N", "O", "P", "Q", "R", "S", "T", "U", "V", "W", "X", "Y", "Z",
      "a", "b", "c", "d", "e", "f", "g", "h", "i", "j", "k", "l", "m",
      "n", "o", "p", "q", "r", "s", "t", "u", "v", "w", "x", "y", "z">>
    \o Digits \o <<"+", "/">>

B64Char(n) == Base64Alphabet[n + 1]
IsB64(c) == c \in Range(Base64Alphabet)
B64Val(c) == CHOOSE i \in 0..63 : Base64Alphabet[i + 1] = c

RECURSIVE b64encode(_)
\* base64.b64encode(bs): three bytes make four characters, a last group of
\* one or two bytes is padded with "="
b64encode(bs) ==
    IF bs = <<>> THEN <<>>
    ELSE IF Len(bs) = 1
    THEN <<B64Char(bs[1] \div 4), B64Char((bs[1] % 4) * 16), "=", "=">>
    ELSE IF Len(bs) = 2
    THEN <<B64Char(bs[1] \div 4), B64Char((bs[1] % 4) * 16 + (bs[2] \div 16)),
           B64Char((bs[2] % 16) * 4), "=">>
    ELSE <<B64Char(bs[1] \div 4), B64Char((bs[1] % 4) * 16 + (bs[2] \div 16)),
           B64Char((bs[2] % 16) * 4 + (bs[3] \div 64)), B64Char(bs[3] % 64)>>
         \o b64encode(SubSeq(bs, 4, Len(bs)))

RECURSIVE B64Groups(_)
B64Groups(cs) ==
    IF cs = <<>> THEN <<>>
    ELSE LET a == B64Val(cs[1])
             b == B64Val(cs[2])
         IN  IF cs[3] = "=" THEN <<a * 4 + (b \div 16)>>
             ELSE IF cs[4] = "="
             THEN <<a * 4 + (b \div 16), (b % 16) * 16 + (B64Val(cs[3]) \div 4)>>
             ELSE <<a * 4 + (b \div 16), (b % 16) * 16 + (B64Val(cs[3]) \div 4),
                    (B64Val(cs[3]) % 4) * 64 + B64Val(cs[4])>>
                  \o B64Groups(SubSeq(cs, 5, Len(cs)))

\* base64.b64decode(v): characters outside the alphabet are dropped, then
\* whole groups of four characters are wanted, padding in the last one only
b64decode(v) ==
    IF v.k # "text" THEN Raise("TypeError", "b64decode")
    ELSE LET cs == SelectSeq(v.chars, LAMBDA c : IsB64(c) \/ c = "=")
             n == Len(cs)
             pad == IF IndexOf(cs, "=") = 0 THEN n + 1 ELSE IndexOf(cs, "=")
         IN  IF n % 4 # 0 \/ pad < n - 1 \/ (pad = n - 1 /\ cs[n] # "=")
             THEN Raise("binascii.Error", "Incorrect padding")
             ELSE Blob("bytes", B64Groups(cs))

\* bytearray(v)
bytearray(v) == IF IsError(v) THEN v ELSE Blob("bytearray", v.bytes)

\* base64.b64encode gives bytes; PY3 decodes them to text, PY2 bytes are str
BlobIO_dictify(v) == TypedValue("Blob", Text(b64encode(v.bytes)), "dse")

BlobIO_objectify(v) == bytearray(b64decode(v))

-----------------------------------------------------------------------------
(* PointIO, LineStringIO, PolygonIO *)

\* dse.util geometry.  A coordinate is a float, held as its number of tenths;
\* a ring or line is a sequence of <<x, y>> pairs.
Point(x, y) == [k |-> "Point", x |-> x, y |-> y]
LineString(coords) == [k |-> "LineString", coords |-> coords]
Polygon(exterior, interiors) ==
    [k |-> "Polygon", exterior |-> exterior, interiors |-> interiors]

\* "%r" % c for a float with one decimal
FloatRepr(c) ==
    LET a == IF c < 0 THEN -c ELSE c
    IN  (IF c < 0 THEN <<"-">> ELSE <<>>) \o NatChars(a \div 10) \o <<".">> \o NatChars(a % 10)

RECURSIVE Join(_, _)
\* sep.join(parts)
Join(parts, sep) ==
    IF parts = <<>> THEN <<>>
    ELSE IF Len(parts) = 1 THEN parts[1]
    ELSE parts[1] \o sep \o Join(Tail(parts), sep)

PairRepr(xy) == FloatRepr(xy[1]) \o <<" ">> \o FloatRepr(xy[2])
CoordsRepr(coords) == Join([i \in 1..Len(coords) |-> PairRepr(coords[i])], <<",", " ">>)

KwPoint == <<"P", "O", "I", "N", "T">>
KwLineString == <<"L", "I", "N", "E", "S", "T", "R", "I", "N", "G">>
KwPolygon == <<"P", "O", "L", "Y", "G", "O", "N">>
KwEmpty == <<"E", "M", "P", "T", "Y">>

\* Point.__str__
Point_str(v) == KwPoint \o <<" ", "(">> \o PairRepr(<<v.x, v.y>>) \o <<")">>

\* LineString.__str__
LineString_str(v) ==
    IF v.coords = <<>> THEN KwLineString \o <<" ">> \o KwEmpty
    ELSE KwLineString \o <<" ", "(">> \o CoordsRepr(v.coords) \o <<")">>

\* Polygon.__str__: the exterior ring, then the interior rings
Polygon_str(v) ==
    LET rings == <<v.exterior>> \o v.interiors
    IN  IF v.exterior = <<>> THEN KwPolygon \o <<" ">> \o KwEmpty
        ELSE KwPolygon \o <<" ", "(">>
             \o Join([i \in 1..Len(rings) |-> <<"(">> \o CoordsRepr(rings[i]) \o <<")">>],
                     <<",", " ">>)
             \o <<")">>

\* cs split at the commas that stand outside parentheses
SplitTop(cs) ==
    LET depthAt(i) == Cardinality({j \in 1..i : cs[j] = "("})
                      - Cardinality({j \in 1..i : cs[j] = ")"})
        cuts == {i \in DOMAIN cs : cs[i] = "," /\ depthAt(i) = 0}
        cut(n) == IF n = 0 THEN 0
                  ELSE IF n > Cardinality(cuts) THEN Len(cs) + 1
                  ELSE CHOOSE c \in cuts : Cardinality({d \in cuts : d < c}) = n - 1
    IN  [n \in 1..(Cardinality(cuts) + 1) |-> Slice(cs, cut(n - 1) + 1, cut(n) - 1)]

\* float(cs) in tenths, for [-]digits.digit; -1000000 stands for no number
NoFloat == 0 - 1000000
FloatOf(cs) ==
    LET neg == cs # <<>> /\ cs[1] = "-"
        b == IF neg THEN Tail(cs) ELSE cs
        p == IndexOf(b, ".")
    IN  IF p > 1 /\ p = Len(b) - 1 /\ AllDigits(Slice(b, 1, p - 1)) /\ IsDigit(b[Len(b)])
        THEN (IF neg THEN -1 ELSE 1) * (NatOf(Slice(b, 1, p - 1)) * 10 + DigitVal(b[Len(b)]))
        ELSE NoFloat

\* one "x y" pair
PairOf(cs) ==
    LET t == LStrip(cs, " ")
        sp == IndexOf(t, " ")
    IN  IF sp = 0 THEN <<NoFloat, NoFloat>>
        ELSE <<FloatOf(Slice(t, 1, sp - 1)), FloatOf(Slice(t, sp + 1, Len(t)))>>

\* the pairs of "x y, x y, ..."
CoordsOf(cs) ==
    LET parts == SplitTop(cs)
    IN  [i \in 1..Len(parts) |-> PairOf(parts[i])]

CoordsOk(coords) ==
    \A i \in DOMAIN coords : coords[i][1] # NoFloat /\ coords[i][2] # NoFloat

IsPrefix(p, cs) == Len(cs) >= Len(p) /\ SubSeq(cs, 1, Len(p)) = p

\* the text between "KEYWORD (" and the closing ")"
WktBody(kw, cs) == Slice(cs, Len(kw) + 3, Len(cs) - 1)
WktShape(kw, cs) ==
    IsPrefix(kw \o <<" ", "(">>, cs) /\ Len(cs) > Len(kw) + 2 /\ cs[Len(cs)] = ")"

\* a ring "(x y, x y, ...)" of a polygon, without its parentheses
RingBody(cs) ==
    LET t == LStrip(cs, " ")
    IN  IF Len(t) >= 2 /\ t[1] = "(" /\ t[Len(t)] = ")" THEN Slice(t, 2, Len(t) - 1)
        ELSE <<"?">>

\* Point.from_wkt(v)
Point_from_wkt(v) ==
    IF v.k # "text" THEN Raise("TypeError", "from_wkt")
    ELSE IF WktShape(KwPoint, v.chars) /\ PairOf(WktBody(KwPoint, v.chars))[1] # NoFloat
            /\ PairOf(WktBody(KwPoint, v.chars))[2] # NoFloat
    THEN Point(PairOf(WktBody(KwPoint, v.chars))[1], PairOf(WktBody(KwPoint, v.chars))[2])
    ELSE Raise("ValueError", "Invalid WKT geometry")

\* LineString.from_wkt(v)
LineString_from_wkt(v) ==
    IF v.k # "text" THEN Raise("TypeError", "from_wkt")
    ELSE IF v.chars = KwLineString \o <<" ">> \o KwEmpty THEN LineString(<<>>)
    ELSE IF WktShape(KwLineString, v.chars) /\ CoordsOk(CoordsOf(WktBody(KwLineString, v.chars)))
    THEN LineString(CoordsOf(WktBody(KwLineString, v.chars)))
    ELSE Raise("ValueError", "Invalid WKT geometry")

\* Polygon.from_wkt(v): the first ring is the exterior, the others interiors
Polygon_from_wkt(v) ==
    IF v.k # "text" THEN Raise("TypeError", "from_wkt")
    ELSE IF v.chars = KwPolygon \o <<" ">> \o KwEmpty THEN Polygon(<<>>, <<>>)
    ELSE IF WktShape(KwPolygon, v.chars)
    THEN LET parts == SplitTop(WktBody(KwPolygon, v.chars))
             rings == [i \in 1..Len(parts) |-> CoordsOf(RingBody(parts[i]))]
         IN  IF \A i \in DOMAIN rings : CoordsOk(rings[i])
             THEN Polygon(rings[1], Tail(rings))
             ELSE Raise("ValueError", "Invalid WKT geometry")
    ELSE Raise("ValueError", "Invalid WKT geometry")

PointIO_dictify(v) == TypedValue("Point", Text(Point_str(v)), "dse")
PointIO_objectify(v) == Point_from_wkt(v)

LineStringIO_dictify(v) == TypedValue("LineString", Text(LineString_str(v)), "dse")
LineStringIO_objectify(v) == LineString_from_wkt(v)

PolygonIO_dictify(v) == TypedValue("Polygon", Text(Polygon_str(v)), "dse")
PolygonIO_objectify(v) == Polygon_from_wkt(v)

\* six.text_type(v): a string is itself, a small number its decimal digits
StringDeserializer_objectify(v) ==
    IF v.k = "int" /\ v.type # "bool" /\ v.hi = 0 THEN Text(NatChars(v.lo)) ELSE v

-----------------------------------------------------------------------------
(* The graph objects of dse.graph and the structural handlers *)

\* dse.graph.Vertex(id, label, type, properties)
DseVertex(id, label, type, properties) ==
    [k |-> "Vertex", id |-> id, label |-> label, type |-> type, properties |-> properties]

\* dse.graph.VertexProperty(label, value, properties)
DseVertexProperty(label, value, properties) ==
    [k |-> "VertexProperty", label |-> label, value |-> value, properties |-> properties]

\* dse.graph.Edge(id, label, type, properties, inV, inVLabel, outV, outVLabel)
DseEdge(id, label, type, properties, inV, inVLabel, outV, outVLabel) ==
    [k |-> "Edge", id |-> id, label |-> label, type |-> type, properties |-> properties,
     inV |-> inV, inVLabel |-> inVLabel, outV |-> outV, outVLabel |-> outVLabel]

\* dse.graph.Path, with the objects attribute as objectify leaves it
DsePath(labels, objects) == [k |-> "Path", labels |-> labels, objects |-> objects]

Has(v, f) == f \in DOMAIN v.d

\* v[f] of a payload: TypeError when v cannot be indexed by a string,
\* KeyError when the dict has no such key
Item(v, f) ==
    IF v.k # "dict" THEN Raise("TypeError", f)
    ELSE IF Has(v, f) THEN v.d[f] ELSE Raise("KeyError", f)

\* reader.toObject(v[f])
ItemObject(v, f, rd) == IF IsError(Item(v, f)) THEN Item(v, f) ELSE ToObject(Item(v, f), rd)

\* v[f] if f in v else dflt
ItemOr(v, f, dflt) == IF Has(v, f) THEN v.d[f] ELSE dflt

\* the first raised exception among the values of a call's arguments, in the
\* order Python evaluates them; None when none raises
FirstError(xs) ==
    IF \E i \in DOMAIN xs : IsError(xs[i])
    THEN xs[CHOOSE i \in DOMAIN xs : IsError(xs[i]) /\ \A j \in 1..(i - 1) : ~IsError(xs[j])]
    ELSE None

\* a variant that never assigns the decoded properties (C6 fails on it)
DseVertexDeserializer_objectify_NoProperties(v, rd) ==
    IF v.k # "dict" THEN Raise("TypeError", "id")
    ELSE
    LET id == ItemObject(v, "id", rd)
        label == ItemOr(v, "label", Str("vertex"))
    IN  IF IsError(id) THEN id
        ELSE DseVertex(id, label, Str("vertex"), EmptyDict)

DseVertexDeserializer_objectify(v, rd) ==
    IF v.k # "dict" THEN Raise("TypeError", "id")
    ELSE
    LET id == ItemObject(v, "id", rd)
        label == ItemOr(v, "label", Str("vertex"))
        properties == ToObject(ItemOr(v, "properties", EmptyDict), rd)
        err == FirstError(<<id, properties>>)
    IN  IF IsError(err) THEN err
        ELSE [DseVertex(id, label, Str("vertex"), EmptyDict) EXCEPT !.properties = properties]

\* a variant that defaults a missing label (C5 fails on it)
DseVertexPropertyDeserializer_objectify_DefaultLabel(v, rd) ==
    IF v.k # "dict" THEN Raise("TypeError", "label")
    ELSE
    LET label == ItemOr(v, "label", Str(""))
        value == ItemObject(v, "value", rd)
        properties == ToObject(ItemOr(v, "properties", EmptyDict), rd)
        err == FirstError(<<value, properties>>)
    IN  IF IsError(err) THEN err
        ELSE DseVertexProperty(label, value, properties)

DseVertexPropertyDeserializer_objectify(v, rd) ==
    IF v.k # "dict" THEN Raise("TypeError", "label")
    ELSE
    LET label == Item(v, "label")
        value == ItemObject(v, "value", rd)
        properties == ToObject(ItemOr(v, "properties", EmptyDict), rd)
        err == FirstError(<<label, value, properties>>)
    IN  IF IsError(err) THEN err
        ELSE DseVertexProperty(label, value, properties)

\* a variant that builds the in-vertex from outV and the out-vertex from inV
\* (C9 fails on it)
DseEdgeDeserializer_objectify_Swapped(v, rd) ==
    IF v.k # "dict" THEN Raise("TypeError", "id")
    ELSE
    LET id == ItemObject(v, "id", rd)
        label == ItemOr(v, "label", Str("vertex"))
        properties == ToObject(ItemOr(v, "properties", EmptyDict), rd)
        inV == ItemObject(v, "inV", rd)
        inVLabel == Item(v, "inVLabel")
        outV == ItemObject(v, "outV", rd)
        outVLabel == Item(v, "outVLabel")
        err == FirstError(<<id, properties, inV, inVLabel, outV, outVLabel>>)
    IN  IF IsError(err) THEN err
        ELSE DseEdge(id, label, Str("edge"), properties,
                     DseVertex(outV, outVLabel, Str("vertex"), EmptyDict), inVLabel,
                     DseVertex(inV, inVLabel, Str("vertex"), EmptyDict), outVLabel)

DseEdgeDeserializer_objectify(v, rd) ==
    IF v.k # "dict" THEN Raise("TypeError", "id")
    ELSE
    LET id == ItemObject(v, "id", rd)
        label == ItemOr(v, "label", Str("vertex"))
        properties == ToObject(ItemOr(v, "properties", EmptyDict), rd)
        inV == ItemObject(v, "inV", rd)
        inVLabel == Item(v, "inVLabel")
        outV == ItemObject(v, "outV", rd)
        outVLabel == Item(v, "outVLabel")
        err == FirstError(<<id, properties, inV, inVLabel, outV, outVLabel>>)
    IN  IF IsError(err) THEN err
        ELSE DseEdge(id, label, Str("edge"), properties,
                     DseVertex(inV, inVLabel, Str("vertex"), EmptyDict), inVLabel,
                     DseVertex(outV, outVLabel, Str("vertex"), EmptyDict), outVLabel)

\* hash(x) succeeds: dicts, lists, sets and bytearrays have no hash; the graph
\* objects define __eq__ without __hash__, which Python 3 makes unhashable
Hashable(x) ==
    IF x.k \in {"dict", "list", "set"} THEN FALSE
    ELSE IF x.k = "blob" THEN x.type = "bytes"
    ELSE IF x.k \in {"Vertex", "VertexProperty", "Edge", "Path"} THEN ~py3
    ELSE TRUE

\* a == b in Python for values that may meet in a set: numbers compare by
\* value whatever their type, the rest by content
PyEq(a, b) ==
    IF a.k # b.k THEN FALSE
    ELSE IF a.k = "int" THEN a.hi = b.hi /\ a.lo = b.lo
    ELSE IF a.k = "blob" THEN a.bytes = b.bytes
    ELSE a = b

\* the set display {a, b}: equal elements are kept once
SetDisplay(a, b) ==
    IF ~Hashable(a) THEN Raise("TypeError", "unhashable type")
    ELSE IF ~Hashable(b) THEN Raise("TypeError", "unhashable type")
    ELSE IF PyEq(a, b) THEN PySet({a}) ELSE PySet({a, b})

DsePropertyDeserializer_objectify(v, rd) ==
    IF v.k # "dict" THEN Raise("TypeError", "key")
    ELSE
    LET key == Item(v, "key")
        value == ItemObject(v, "value", rd)
        err == FirstError(<<key, value>>)
    IN  IF IsError(err) THEN err ELSE SetDisplay(key, value)

\* set(label) for one entry of the labels list: the entry is a list of hashable
\* label names
SetOf(label) ==
    IF label.k # "list" THEN Raise("TypeError", "not iterable")
    ELSE IF \E i \in DOMAIN label.l : ~Hashable(label.l[i])
    THEN Raise("TypeError", "unhashable type")
    ELSE PySet(Range(label.l))

\* a variant that puts each decoded object in front of the earlier ones
\* (C7 fails on it)
DsePathDeserializer_objectify_Reversed(v, rd) ==
    IF v.k # "dict" THEN Raise("TypeError", "labels")
    ELSE IF IsError(Item(v, "labels")) THEN Item(v, "labels")
    ELSE IF v.d["labels"].k # "list" THEN Raise("TypeError", "not iterable")
    ELSE
    LET L == v.d["labels"].l
        labels == [i \in 1..Len(L) |-> SetOf(L[i])]
    IN  IF IsError(FirstError(labels)) THEN FirstError(labels)
        ELSE IF IsError(Item(v, "objects")) THEN Item(v, "objects")
        ELSE IF v.d["objects"].k # "list" THEN Raise("TypeError", "not iterable")
        ELSE
        LET O == v.d["objects"].l
            objects == [i \in 1..Len(O) |-> ToObject(O[Len(O) + 1 - i], rd)]
        IN  IF IsError(FirstError(objects)) THEN FirstError(objects)
            ELSE [DsePath(labels, <<>>) EXCEPT !.objects = objects]

DsePathDeserializer_objectify(v, rd) ==
    IF v.k # "dict" THEN Raise("TypeError", "labels")
    ELSE IF IsError(Item(v, "labels")) THEN Item(v, "labels")
    ELSE IF v.d["labels"].k # "list" THEN Raise("TypeError", "not iterable")
    ELSE
    LET L == v.d["labels"].l
        labels == [i \in 1..Len(L) |-> SetOf(L[i])]
    IN  IF IsError(FirstError(labels)) THEN FirstError(labels)
        ELSE IF IsError(Item(v, "objects")) THEN Item(v, "objects")
        ELSE IF v.d["objects"].k # "list" THEN Raise("TypeError", "not iterable")
        ELSE
        LET O == v.d["objects"].l
            objects == [i \in 1..Len(O) |-> ToObject(O[i], rd)]
        IN  IF IsError(FirstError(objects)) THEN FirstError(objects)
            ELSE [DsePath(labels, <<>>) EXCEPT !.objects = objects]

-----------------------------------------------------------------------------
(* Dispatch *)

\* handler.objectify(v, reader) for the handler classes of the decode tables
Objectify(h, v, rd) ==
    CASE h = "Int16Deserializer" -> Int16Deserializer_objectify(v)
      [] h = "Int64Deserializer" -> Int64Deserializer_objectify(v)
      [] h = "UUIDIO" -> UUIDIO_objectify(v)
      [] h = "BigDecimalIO" -> BigDecimalIO_objectify(v)
      [] h = "InstantIO" -> InstantIO_objectify(v)
      [] h = "DurationIO" -> DurationIO_objectify(v)
      [] h = "StringDeserializer" -> StringDeserializer_objectify(v)
      [] h = "BlobIO" -> BlobIO_objectify(v)
      [] h = "PointIO" -> PointIO_objectify(v)
      [] h = "LineStringIO" -> LineStringIO_objectify(v)
      [] h = "PolygonIO" -> PolygonIO_objectify(v)
      [] h = "DseVertexDeserializer" -> DseVertexDeserializer_objectify(v, rd)
      [] h = "DseVertexPropertyDeserializer" -> DseVertexPropertyDeserializer_objectify(v, rd)
      [] h = "DseEdgeDeserializer" -> DseEdgeDeserializer_objectify(v, rd)
      [] h = "DsePropertyDeserializer" -> DsePropertyDeserializer_objectify(v, rd)
      [] h = "DsePathDeserializer" -> DsePathDeserializer_objectify(v, rd)
      [] h = "Int32Deserializer" -> v

\* handler.dictify(v, writer) for the handler classes of the encode table
Dictify(h, v) ==
    CASE h = "IntegerSerializer" -> IntegerSerializer_dictify(v)
      [] h = "UUIDIO" -> UUIDIO_dictify(v)
      [] h = "BigDecimalIO" -> BigDecimalIO_dictify(v)
      [] h = "InstantIO" -> InstantIO_dictify(v)
      [] h = "DurationIO" -> DurationIO_dictify(v)
      [] h = "BlobIO" -> BlobIO_dictify(v)
      [] h = "PointIO" -> PointIO_dictify(v)
      [] h = "LineStringIO" -> LineStringIO_dictify(v)
      [] h = "PolygonIO" -> PolygonIO_dictify(v)

\* the wire tags the reader decodes without an entry of these tables: the
\* 32-bit integer, a JSON number handed through
core_deserializers == "g:Int32" :> "Int32Deserializer"

\* a variant that hands the payload of an unknown tag through as a string
\* (C4 fails on it)
lookup_decoder_PassThrough(tag, rd) ==
    IF tag \in DOMAIN rd THEN rd[tag] ELSE "StringDeserializer"

\* lookup_decoder(tag) in the reader's table: the handler, or "NotFound"
lookup_decoder(tag, rd) == IF tag \in DOMAIN rd THEN rd[tag] ELSE "NotFound"

\* lookup_encoder(type) in the encode table: the handler, or "NotFound"
lookup_encoder(type, table) == IF type \in DOMAIN table THEN table[type] ELSE "NotFound"

\* reader.toObject(w): a tagged record goes to the handler of its tag, a
\* plain dict or list is decoded entry by entry, anything else is itself
ToObject(w, rd) ==
    IF w.k = "dict" /\ Has(w, "@type")
    THEN IF lookup_decoder(w.d["@type"].s, rd) = "NotFound"
         THEN Raise("UnsupportedType", w.d["@type"].s)
         ELSE IF ~Has(w, "@value") THEN Raise("KeyError", "@value")
         ELSE Objectify(lookup_decoder(w.d["@type"].s, rd), w.d["@value"], rd)
    ELSE IF w.k = "dict"
    THEN LET d == [f \in DOMAIN w.d |-> ToObject(w.d[f], rd)]
         IN  IF \E f \in DOMAIN d : IsError(d[f])
             THEN d[CHOOSE f \in DOMAIN d : IsError(d[f])]
             ELSE Dict(d)
    ELSE IF w.k = "list"
    THEN LET l == [i \in 1..Len(w.l) |-> ToObject(w.l[i], rd)]
         IN  IF IsError(FirstError(l)) THEN FirstError(l) ELSE List(l)
    ELSE w

\* type(v), as the key the encode table would hold for it
TypeOf(v) ==
    CASE v.k = "int" -> v.type
      [] v.k = "blob" -> v.type
      [] v.k = "text" -> "str"
      [] OTHER -> v.k

\* writer: the encoding of v by the handler registered for its type
Encode(v, table) ==
    IF lookup_encoder(TypeOf(v), table) = "NotFound"
    THEN Raise("UnsupportedType", TypeOf(v))
    ELSE Dictify(lookup_encoder(TypeOf(v), table), v)

-----------------------------------------------------------------------------
(* The module-level code: the three tables *)

\* d.update(u) as a value: the entries of u replace and extend those of d
DictUpdate(d, u) == u @@ d

\* a variant that binds the new name to the same dict object (C10 fails on it)
DictCopy_Alias(h, ref) == [heap |-> h, ref |-> ref]

\* d.copy(): a new dict object with the entries of the object at ref
DictCopy(h, ref) == [heap |-> Append(h, h[ref]), ref |-> Len(h) + 1]

SerializersLiteral ==
    ("long" :> "IntegerSerializer") @@ ("int" :> "IntegerSerializer")
    @@ ("UUID" :> "UUIDIO") @@ ("Decimal" :> "BigDecimalIO")
    @@ ("datetime" :> "InstantIO") @@ ("timedelta" :> "DurationIO")
    @@ ("bytearray" :> "BlobIO") @@ ("Point" :> "PointIO")
    @@ ("LineString" :> "LineStringIO") @@ ("Polygon" :> "PolygonIO")

SerializersPY2 == "buffer" :> "BlobIO"
SerializersPY3 == ("memoryview" :> "BlobIO") @@ ("bytes" :> "BlobIO")

DeserializersLiteral ==
    ("gx:Int16" :> "Int16Deserializer") @@ ("g:Int64" :> "Int64Deserializer")
    @@ ("g:UUID" :> "UUIDIO") @@ ("gx:BigInteger" :> "Int64Deserializer")
    @@ ("gx:BigDecimal" :> "BigDecimalIO") @@ ("gx:Instant" :> "InstantIO")
    @@ ("gx:Duration" :> "DurationIO") @@ ("gx:InetAddress" :> "StringDeserializer")
    @@ ("dse:Blob" :> "BlobIO") @@ ("dse:Point" :> "PointIO")
    @@ ("dse:LineString" :> "LineStringIO") @@ ("dse:Polygon" :> "PolygonIO")

DseDeserializersUpdate ==
    ("g:Vertex" :> "DseVertexDeserializer")
    @@ ("g:VertexProperty" :> "DseVertexPropertyDeserializer")
    @@ ("g:Edge" :> "DseEdgeDeserializer")
    @@ ("g:Property" :> "DsePropertyDeserializer")
    @@ ("g:Path" :> "DsePathDeserializer")

Init ==
    /\ py3 \in BOOLEAN
    /\ pc = "import"
    /\ heap = <<>>
    /\ serializers = 0
    /\ deserializers = 0
    /\ dse_deserializers = 0
    /\ op = "none"
    /\ handler = "none"
    /\ arg = None
    /\ reader = "none"
    /\ result = None

\* serializers = { ... }
DefineSerializers ==
    /\ pc = "import"
    /\ heap' = Append(heap, SerializersLiteral)
    /\ serializers' = Len(heap) + 1
    /\ pc' = "serializers"
    /\ UNCHANGED <<py3, deserializers, dse_deserializers, call>>

\* if six.PY2: serializers.update(...) else: serializers.update(...)
UpdateSerializers ==
    /\ pc = "serializers"
    /\ heap' = [heap EXCEPT ![serializers] =
                    DictUpdate(@, IF py3 THEN SerializersPY3 ELSE SerializersPY2)]
    /\ pc' = "deserializers"
    /\ UNCHANGED <<py3, serializers, deserializers, dse_deserializers, call>>

\* deserializers = { ... }
DefineDeserializers ==
    /\ pc = "deserializers"
    /\ heap' = Append(heap, DeserializersLiteral)
    /\ deserializers' = Len(heap) + 1
    /\ pc' = "copy"
    /\ UNCHANGED <<py3, serializers, dse_deserializers, call>>

\* dse_deserializers = deserializers.copy()
CopyDeserializers ==
    /\ pc = "copy"
    /\ heap' = DictCopy(heap, deserializers).heap
    /\ dse_deserializers' = DictCopy(heap, deserializers).ref
    /\ pc' = "update"
    /\ UNCHANGED <<py3, serializers, deserializers, call>>

\* dse_deserializers.update({ ... })
UpdateDseDeserializers ==
    /\ pc = "update"
    /\ heap' = [heap EXCEPT ![dse_deserializers] = DictUpdate(@, DseDeserializersUpdate)]
    /\ pc' = "loaded"
    /\ UNCHANGED <<py3, serializers, deserializers, dse_deserializers, call>>

\* the table a reader decodes with: the tags it knows itself and the entries
\* of the base table or of the extended one
ActiveTable(r) ==
    core_deserializers @@ heap[IF r = "dse" THEN dse_deserializers ELSE deserializers]

Readers == {"base", "dse"}

-----------------------------------------------------------------------------
(* The values the calls are made with *)

MaxDigits == 2      \* digits of a Decimal coefficient
MaxBlobLen == 3     \* bytes of a blob
MaxCoords == 2      \* points of a line
MaxPathLen == 3     \* entries of the objects list of a Path
MaxLabels == 2      \* entries of the labels list of a Path

SeqsUpTo(S, n) == UNION {[1..m -> S] : m \in 0..n}

Absent == [k |-> "absent"]

\* the dict with the entries of g that are present
Fields(g) == Dict([f \in {x \in DOMAIN g : g[x] # Absent} |-> g[f]])

Typed(tag, value) == Dict(("@type" :> Str(tag)) @@ ("@value" :> value))

IntSamples ==
    {PyInt(t, h, l) : t \in {"int", "long"},
                      h \in {-(Limb \div 2) - 1, -(Limb \div 2), -1, 0,
                             (Limb \div 2) - 1, Limb \div 2, Limb - 1, Limb},
                      l \in {0, 1, Limb - 1}}
    \cup {Bool(TRUE), Bool(FALSE)}

UUIDSamples ==
    {UUID([i \in 1..32 |-> 0]), UUID([i \in 1..32 |-> 15]), UUID([i \in 1..32 |-> (i * 7) % 16])}

DecimalSamples ==
    {Decimal(s, int, e) : s \in {0, 1},
                          int \in {d \in SeqsUpTo({0, 1, 9}, MaxDigits) :
                                      d # <<>> /\ (d[1] # 0 \/ Len(d) = 1)},
                          e \in {-7, -6, -1, 0, 2}}

DaySamples ==
    {<<2016, 2, d>> : d \in 1..7}
    \cup {<<2015, 12, 31>>, <<2016, 1, 1>>, <<2016, 2, 29>>, <<2016, 3, 1>>}

DateSamples == {Date(d[1], d[2], d[3]) : d \in DaySamples}

ZoneSamples == {<<FALSE, 0>>, <<TRUE, 0>>, <<TRUE, 60>>, <<TRUE, -60>>}

DateTimeSamples ==
    {DateTime(d[1], d[2], d[3], h, mi, s, us, z[1], z[2]) :
        d \in DaySamples, h \in {0, 23}, mi \in {0, 59}, s \in {0, 59},
        us \in {0, 1, 999999}, z \in ZoneSamples}

TimeDeltaSamples ==
    {TimeDelta(d, s, us) : d \in {-1, 0, 1, 10}, s \in {0, 1, 59, 60, 3600, 86399},
                           us \in {0, 1, 500000, 999999}}

\* the bytes-like types of the interpreter
BlobTypes == IF py3 THEN {"bytearray", "bytes", "memoryview"} ELSE {"bytearray", "buffer"}

BlobSamples ==
    {Blob(t, bs) : t \in BlobTypes, bs \in SeqsUpTo({0, 65, 255}, MaxBlobLen)}

CoordSamples == {<<0, 0>>, <<10, -15>>, <<-5, 25>>}

PointSamples == {Point(c[1], c[2]) : c \in CoordSamples}

LineStringSamples == {LineString(cs) : cs \in SeqsUpTo(CoordSamples, MaxCoords)}

RingSamples == {<<<<0, 0>>, <<10, 0>>, <<10, 10>>, <<0, 0>>>>, <<<<-5, 25>>, <<10, -15>>, <<-5, 25>>>>}

PolygonSamples ==
    {Polygon(<<>>, <<>>)}
    \cup {Polygon(e, i) : e \in RingSamples, i \in SeqsUpTo(RingSamples, 1)}

\* values of types the encode table has no key for
UnregisteredSamples ==
    {Str("marko"), None, [k |-> "float", tenths |-> 15], List(<<>>), EmptyDict}
    \cup {Date(2016, 2, 1)}
    \cup (IF py3 THEN {} ELSE {Blob("memoryview", <<65>>)})

\* the values a handler of the encode table is called with
DictifyInputs(h) ==
    CASE h = "IntegerSerializer" -> IntSamples
      [] h = "UUIDIO" -> UUIDSamples
      [] h = "BigDecimalIO" -> DecimalSamples
      [] h = "InstantIO" -> DateTimeSamples \cup DateSamples
      [] h = "DurationIO" -> TimeDeltaSamples
      [] h = "BlobIO" -> BlobSamples
      [] h = "PointIO" -> PointSamples
      [] h = "LineStringIO" -> LineStringSamples
      [] h = "PolygonIO" -> PolygonSamples

\* the values the writer is asked to encode
NativeSamples ==
    IntSamples \cup UUIDSamples \cup DecimalSamples \cup DateTimeSamples
    \cup TimeDeltaSamples \cup BlobSamples \cup PointSamples \cup LineStringSamples
    \cup PolygonSamples \cup UnregisteredSamples

Malformed == Text(<<"x">>)

NumberPayloads == {Small(1), PyInt("int", Limb \div 2, 0), PyInt("int", -1, Limb - 1)}

InstantPayloads ==
    {Text(isoformat(Naive(2016, 1, 1, 0, 0, 0, 123456)) \o <<"Z">>),
     Text(isoformat(Naive(2016, 1, 1, 0, 0, 0, 0)) \o <<"Z">>),
     Text(isoformat(Naive(2016, 1, 1, 0, 0, 0, 0))),
     Text(isoformat(Naive(2016, 1, 1, 0, 0, 0, 0)) \o <<".", "5", "Z">>),
     Malformed}

Bogus == Typed("x:Bogus", Small(1))
WireA == Typed("g:Int32", Small(1))
WireB == Str("b")
WireC == Typed("g:Int64", Small(3))

IdChoices == {WireA, Str("a"), Bogus}

PropertiesChoices ==
    {Absent, EmptyDict, Bogus,
     Dict("name" :> List(<<Typed("g:VertexProperty",
                                 Dict(("label" :> Str("name")) @@ ("value" :> Str("marko"))))>>))}

VertexPayloads ==
    {Fields(("id" :> i) @@ ("label" :> l) @@ ("properties" :> p)) :
        i \in IdChoices \cup {Absent}, l \in {Absent, Str("person")}, p \in PropertiesChoices}

VertexPropertyPayloads ==
    {Fields(("label" :> l) @@ ("value" :> v) @@ ("properties" :> p)) :
        l \in {Absent, Str("name")}, v \in {Absent, Str("marko"), WireA, Bogus},
        p \in {Absent, EmptyDict, Bogus, Dict("since" :> WireA)}}

EdgePayloads ==
    {Fields(("id" :> i) @@ ("label" :> l) @@ ("properties" :> p)
            @@ ("inV" :> iv) @@ ("inVLabel" :> il) @@ ("outV" :> ov) @@ ("outVLabel" :> ol)) :
        i \in {Absent, WireC, Bogus}, l \in {Absent, Str("knows")}, p \in {Absent, EmptyDict},
        iv \in IdChoices \cup {Absent}, il \in {Absent, Str("person")},
        ov \in IdChoices \cup {Absent}, ol \in {Absent, Str("software")}}

PropertyPayloads ==
    {Fields(("key" :> key) @@ ("value" :> v)) :
        key \in {Absent, Str("a"), Str("b"), Small(1)},
        v \in {Absent, Str("a"), Str("b"), WireA, WireC, EmptyDict, Bogus,
               Typed("dse:Blob", Text(b64encode(<<65>>)))}}

LabelLists == {List(<<Str("a")>>), List(<<Str("a"), Str("b"), Str("a")>>)}

PathPayloads ==
    {Fields(("labels" :> L) @@ ("objects" :> O)) :
        L \in {Absent} \cup {List(l) : l \in SeqsUpTo(LabelLists, MaxLabels)},
        O \in {Absent} \cup {List(o) : o \in SeqsUpTo({WireA, WireB, WireC, Bogus}, MaxPathLen)}}

\* the payloads a handler of the decode tables is called with
ObjectifyInputs(h) ==
    CASE h \in {"Int16Deserializer", "Int64Deserializer", "Int32Deserializer"} ->
            NumberPayloads
      [] h = "UUIDIO" -> {Text(UUID_str(u)) : u \in UUIDSamples} \cup {Malformed}
      [] h = "BigDecimalIO" ->
            {Text(Decimal_str(d)) : d \in {x \in DecimalSamples : Len(x.int) = 1}}
            \cup {Malformed}
      [] h = "InstantIO" -> InstantPayloads
      [] h = "DurationIO" ->
            {Text(duration_isoformat(t)) : t \in {x \in TimeDeltaSamples : x.seconds < 60}}
            \cup {Text(<<"P", "T">>), Text(<<"P", "1", "W">>), Malformed}
      [] h = "StringDeserializer" -> {Str("127.0.0.1"), Small(1)}
      [] h = "BlobIO" ->
            {Text(b64encode(bs)) : bs \in SeqsUpTo({0, 65, 255}, 2)} \cup {Malformed}
      [] h = "PointIO" -> {Text(Point_str(x)) : x \in PointSamples} \cup {Malformed}
      [] h = "LineStringIO" ->
            {Text(LineString_str(x)) : x \in LineStringSamples} \cup {Malformed}
      [] h = "PolygonIO" -> {Text(Polygon_str(x)) : x \in PolygonSamples} \cup {Malformed}
      [] h = "DseVertexDeserializer" -> VertexPayloads
      [] h = "DseVertexPropertyDeserializer" -> VertexPropertyPayloads
      [] h = "DseEdgeDeserializer" -> EdgePayloads
      [] h = "DsePropertyDeserializer" -> PropertyPayloads
      [] h = "DsePathDeserializer" -> PathPayloads

AllTags ==
    DOMAIN core_deserializers \cup DOMAIN DeserializersLiteral \cup DOMAIN DseDeserializersUpdate

HandlerOfTag(tag) ==
    (core_deserializers @@ DeserializersLiteral @@ DseDeserializersUpdate)[tag]

\* the wire values a reader is asked to decode: the tagged records of every
\* tag, records with an unknown tag or without a payload, untagged values
WireSamples ==
    UNION {{Typed(tag, p) : p \in ObjectifyInputs(HandlerOfTag(tag))} : tag \in AllTags}
    \cup {Bogus, Typed("g:Double", Small(1)), Dict("@type" :> Str("g:Int64")),
          Str("plain"), Small(1), EmptyDict, List(<<WireA, WireB>>), List(<<WireA, Bogus>>),
          Dict("weight" :> WireC)}

-----------------------------------------------------------------------------
(* The calls *)

HandlersOf(table) == {table[key] : key \in DOMAIN table}

\* handler.dictify(v, writer), called on a handler of the encode table
CallDictify ==
    /\ pc = "loaded"
    /\ op = "none"
    /\ \E h \in HandlersOf(heap[serializers]) : \E v \in DictifyInputs(h) :
          /\ op' = "dictify"
          /\ handler' = h
          /\ arg' = v
          /\ reader' = "none"
          /\ result' = Dictify(h, v)
    /\ UNCHANGED <<py3, pc, tables>>

\* handler.objectify(v, reader), called on a handler of the reader's table
CallObjectify ==
    /\ pc = "loaded"
    /\ op = "none"
    /\ \E r \in Readers : \E h \in HandlersOf(ActiveTable(r)) : \E v \in ObjectifyInputs(h) :
          /\ op' = "objectify"
          /\ handler' = h
          /\ arg' = v
          /\ reader' = r
          /\ result' = Objectify(h, v, ActiveTable(r))
    /\ UNCHANGED <<py3, pc, tables>>

\* the writer encodes a native value: encoder lookup by type, then dictify
EncodeValue ==
    /\ pc = "loaded"
    /\ op = "none"
    /\ \E v \in NativeSamples :
          /\ op' = "encode"
          /\ handler' = lookup_encoder(TypeOf(v), heap[serializers])
          /\ arg' = v
          /\ reader' = "none"
          /\ result' = Encode(v, heap[serializers])
    /\ UNCHANGED <<py3, pc, tables>>

\* a reader decodes a wire value: decoder lookup by tag, then objectify
DecodeRecord ==
    /\ pc = "loaded"
    /\ op = "none"
    /\ \E r \in Readers : \E w \in WireSamples :
          /\ op' = "decode"
          /\ handler' = IF w.k = "dict" /\ Has(w, "@type")
                        THEN lookup_decoder(w.d["@type"].s, ActiveTable(r)) ELSE "none"
          /\ arg' = w
          /\ reader' = r
          /\ result' = ToObject(w, ActiveTable(r))
    /\ UNCHANGED <<py3, pc, tables>>

\* a reader decodes what the writer has just encoded
DecodeEncoded ==
    /\ pc = "loaded"
    /\ op = "encode"
    /\ ~IsError(result)
    /\ \E r \in Readers :
          /\ op' = "roundtrip"
          /\ reader' = r
          /\ result' = ToObject(result, ActiveTable(r))
    /\ UNCHANGED <<py3, pc, tables, handler, arg>>

\* the caller takes the result (or the exception); the next call can be made
Return ==
    /\ op # "none"
    /\ op' = "none"
    /\ handler' = "none"
    /\ arg' = None
    /\ reader' = "none"
    /\ result' = None
    /\ UNCHANGED <<py3, pc, tables>>

Next ==
    \/ DefineSerializers
    \/ UpdateSerializers
    \/ DefineDeserializers
    \/ CopyDeserializers
    \/ UpdateDseDeserializers
    \/ CallDictify
    \/ CallObjectify
    \/ EncodeValue
    \/ DecodeRecord
    \/ DecodeEncoded
    \/ Return

Spec == Init /\ [][Next]_vars

-----------------------------------------------------------------------------
(* Properties *)

\* the last call ran handler h on a payload: called directly, or reached by a
\* reader through the tag of a wire record
Ran(h) ==
    \/ op = "objectify" /\ handler = h
    \/ op = "decode" /\ handler = h /\ Has(arg, "@value")

Payload == IF op = "objectify" THEN arg ELSE arg.d["@value"]

\* reader.toObject of field f of the payload, with the reader of the call
Decoded(f) == ToObject(Payload.d[f], ActiveTable(reader))
DecodedOr(f, dflt) == ToObject(ItemOr(Payload, f, dflt), ActiveTable(reader))

INT32_MAX == [hi |-> (Limb \div 2) - 1, lo |-> Limb - 1]

\* C1: IntegerSerializer.dictify returns a boolean as it is; a native integer
\* not of the long type gets tag g:Int32 up to 2^31 - 1 and g:Int64 from 2^31 on.
C1_IntegerTieBreak ==
    (op = "dictify" /\ handler = "IntegerSerializer") =>
        IF arg.type = "bool" THEN result = arg
        ELSE arg.type = "int" =>
                /\ IsTyped(result)
                /\ ValueOf(result).hi = arg.hi /\ ValueOf(result).lo = arg.lo
                /\ TagOf(result) = IF IntGT(arg, INT32_MAX) THEN "g:Int64" ELSE "g:Int32"

\* the scalar kinds with an encoder whose tag has a decoder in the decode table
RoundTripHandlers ==
    {"IntegerSerializer", "UUIDIO", "BigDecimalIO", "InstantIO", "DurationIO",
     "BlobIO", "PointIO", "LineStringIO", "PolygonIO"}

\* C2: for a value of a scalar kind whose encoding carries a tag of the decode
\* table, decoding the encoding gives a value equal to the one encoded.
C2_RoundTrip ==
    (/\ op = "roundtrip"
     /\ handler \in RoundTripHandlers
     /\ IsTyped(Encode(arg, heap[serializers]))
     /\ TagOf(Encode(arg, heap[serializers])) \in DOMAIN heap[deserializers])
    => PyEq(result, arg)

\* the ISO-8601 text, to the second, of the UTC instant of a datetime or of
\* the midnight of a date
WholeSeconds(v) ==
    IF v.k = "date" THEN isoformat(CombineMidnight(v))
    ELSE isoformat([ToUTC(v) EXCEPT !.microsecond = 0, !.aware = FALSE, !.offset = 0])

\* C3: InstantIO.dictify gives tag gx:Instant and a payload ending in Z; for a
\* date, and for a datetime without microseconds, the payload is the UTC
\* instant to the second; a fraction is written only for nonzero microseconds.
C3_InstantWholeSeconds ==
    (op = "dictify" /\ handler = "InstantIO") =>
        /\ IsTyped(result)
        /\ TagOf(result) = "gx:Instant"
        /\ ValueOf(result).chars[Len(ValueOf(result).chars)] = "Z"
        /\ (arg.k = "date" \/ arg.microsecond = 0) =>
                ValueOf(result).chars = WholeSeconds(arg) \o <<"Z">>
        /\ "." \in Range(ValueOf(result).chars) => (arg.k = "datetime" /\ arg.microsecond # 0)

Required(h) ==
    CASE h = "DseVertexDeserializer" -> {"id"}
      [] h = "DseVertexPropertyDeserializer" -> {"label", "value"}
      [] h = "DseEdgeDeserializer" -> {"id", "inV", "inVLabel", "outV", "outVLabel"}
      [] h = "DsePropertyDeserializer" -> {"key", "value"}
      [] h = "DsePathDeserializer" -> {"labels", "objects"}

StructuralHandlers == HandlersOf(DseDeserializersUpdate)

\* C5: a structural handler run on a payload that lacks one of its required
\* fields raises and returns no object; a Vertex or Edge without label gets
\* the label "vertex", and absent properties are the empty mapping.
C5_MissingField ==
    \A h \in StructuralHandlers :
        (Ran(h) /\ Payload.k = "dict") =>
            /\ (Required(h) \ DOMAIN Payload.d # {}) => IsError(result)
            /\ (~IsError(result) /\ ~Has(Payload, "label")
                /\ h \in {"DseVertexDeserializer", "DseEdgeDeserializer"}) =>
                    result.label = Str("vertex")
            /\ (~IsError(result) /\ ~Has(Payload, "properties")
                /\ h \in {"DseVertexDeserializer", "DseVertexPropertyDeserializer",
                           "DseEdgeDeserializer"}) =>
                    result.properties = EmptyDict

C5_Witness ==
    /\ Ran("DseVertexPropertyDeserializer")
    /\ Payload.k = "dict" /\ ~Has(Payload, "label") /\ Has(Payload, "value")
    /\ result = Raise("KeyError", "label")

\* C6: for a payload with an id whose nested fields decode, the Vertex handler
\* gives a Vertex with the decoded id, the label of the payload or "vertex",
\* the kind marker 'vertex' and the decoded properties (of the empty mapping
\* when absent); id g:Int32 1, label "person", properties {} give id 1, label
\* "person" and no properties.
C6_VertexDecode ==
    (/\ Ran("DseVertexDeserializer") /\ Payload.k = "dict" /\ Has(Payload, "id")
     /\ ~IsError(Decoded("id")) /\ ~IsError(DecodedOr("properties", EmptyDict)))
    => /\ result.k = "Vertex"
       /\ result.id = Decoded("id")
       /\ result.label = (IF Has(Payload, "label") THEN Payload.d["label"] ELSE Str("vertex"))
       /\ result.type = Str("vertex")
       /\ result.properties = DecodedOr("properties", EmptyDict)
       /\ (Payload = Dict(("id" :> WireA) @@ ("label" :> Str("person"))
                          @@ ("properties" :> EmptyDict)))
            => result = DseVertex(Small(1), Str("person"), Str("vertex"), EmptyDict)

C6_Witness ==
    /\ Ran("DseVertexDeserializer")
    /\ Payload = Dict(("id" :> WireA) @@ ("label" :> Str("person")) @@ ("properties" :> EmptyDict))
    /\ result.k = "Vertex" /\ result.id = Small(1) /\ result.label = Str("person")

\* C7: for a Path payload with a labels list and an objects list whose entries
\* decode, the Path has one decoded object per entry, in the order of the
\* list, and one label set per labels entry, in the order of the list.
C7_PathOrder ==
    (/\ Ran("DsePathDeserializer") /\ Payload.k = "dict"
     /\ Has(Payload, "labels") /\ Has(Payload, "objects")
     /\ \A i \in DOMAIN Payload.d["objects"].l :
            ~IsError(ToObject(Payload.d["objects"].l[i], ActiveTable(reader))))
    => /\ result.k = "Path"
       /\ Len(result.objects) = Len(Payload.d["objects"].l)
       /\ \A i \in DOMAIN result.objects :
            result.objects[i] = ToObject(Payload.d["objects"].l[i], ActiveTable(reader))
       /\ Len(result.labels) = Len(Payload.d["labels"].l)
       /\ \A i \in DOMAIN result.labels :
            result.labels[i] = PySet(Range(Payload.d["labels"].l[i].l))

C7_Witness ==
    /\ Ran("DsePathDeserializer") /\ Payload.k = "dict"
    /\ Has(Payload, "labels") /\ Has(Payload, "objects")
    /\ Payload.d["objects"].l = <<WireA, WireB, WireC>>
    /\ Len(Payload.d["labels"].l) = 2
    /\ result.k = "Path"
    /\ Len(result.objects) = 3 /\ result.objects[1] = Small(1) /\ result.objects[2] = Str("b")

\* C8: for a payload with key and value, the Property handler gives a
\* collection of exactly two elements, the key and the decoded value, also
\* when the two are equal.
C8_PropertyPair ==
    (/\ Ran("DsePropertyDeserializer") /\ Payload.k = "dict"
     /\ Has(Payload, "key") /\ Has(Payload, "value") /\ ~IsError(Decoded("value")))
    => /\ result.k = "set"
       /\ Cardinality(result.elems) = 2
       /\ Payload.d["key"] \in result.elems
       /\ Decoded("value") \in result.elems

\* C9: for a payload with every required field whose nested fields decode,
\* the Edge handler gives an Edge with the decoded id, the kind marker 'edge',
\* the label of the payload or "vertex", the decoded properties, and as in- and
\* out-vertex new Vertex objects with the decoded inV and outV, the labels
\* inVLabel and outVLabel and no properties.
C9_EdgeDecode ==
    (/\ Ran("DseEdgeDeserializer") /\ Payload.k = "dict"
     /\ Required("DseEdgeDeserializer") \subseteq DOMAIN Payload.d
     /\ ~IsError(Decoded("id")) /\ ~IsError(Decoded("inV")) /\ ~IsError(Decoded("outV"))
     /\ ~IsError(DecodedOr("properties", EmptyDict)))
    => /\ result.k = "Edge"
       /\ result.id = Decoded("id")
       /\ result.type = Str("edge")
       /\ result.label = (IF Has(Payload, "label") THEN Payload.d["label"] ELSE Str("vertex"))
       /\ result.properties = DecodedOr("properties", EmptyDict)
       /\ result.inV = DseVertex(Decoded("inV"), Payload.d["inVLabel"], Str("vertex"), EmptyDict)
       /\ result.inVLabel = Payload.d["inVLabel"]
       /\ result.outV = DseVertex(Decoded("outV"), Payload.d["outVLabel"], Str("vertex"), EmptyDict)
       /\ result.outVLabel = Payload.d["outVLabel"]

C9_Witness ==
    /\ Ran("DseEdgeDeserializer") /\ Payload.k = "dict"
    /\ Required("DseEdgeDeserializer") \subseteq DOMAIN Payload.d
    /\ ~Has(Payload, "label")
    /\ Payload.d["inV"] = WireA /\ Payload.d["outV"] = Str("a")
    /\ result.k = "Edge" /\ result.label = Str("vertex")
    /\ result.inV.id = Small(1) /\ result.outV.id = Str("a")
    /\ result.inV.label = Str("person") /\ result.outV.label = Str("software")

ScalarTags ==
    {"gx:Int16", "g:Int64", "g:UUID", "gx:BigInteger", "gx:BigDecimal", "gx:Instant",
     "gx:Duration", "gx:InetAddress", "dse:Blob", "dse:Point", "dse:LineString",
     "dse:Polygon"}

StructuralTags == {"g:Vertex", "g:VertexProperty", "g:Edge", "g:Property", "g:Path"}

\* C10: once the module is loaded, whatever calls have been made, the encode
\* table is as built, the base decode table has exactly its twelve scalar
\* tags, and the extended table has the entries of the base table and exactly
\* the five structural tags besides.
C10_RegistriesAsLoaded ==
    pc = "loaded" =>
        /\ heap[serializers] =
              DictUpdate(SerializersLiteral, IF py3 THEN SerializersPY3 ELSE SerializersPY2)
        /\ DOMAIN heap[deserializers] = ScalarTags
        /\ Cardinality(DOMAIN heap[deserializers]) = 12
        /\ heap[deserializers] = DeserializersLiteral
        /\ DOMAIN heap[dse_deserializers] = ScalarTags \cup StructuralTags
        /\ \A t \in ScalarTags : heap[dse_deserializers][t] = heap[deserializers][t]
        /\ \A t \in StructuralTags : heap[dse_deserializers][t] = DseDeserializersUpdate[t]

C10_Witness ==
    /\ pc = "loaded"
    /\ op = "decode" /\ reader = "dse" /\ handler = "DseVertexDeserializer"
    /\ IsError(result)
    /\ DOMAIN heap[deserializers] = ScalarTags

=============================================================================
